---------------------------- MODULE Spec2Model ----------------------------
(***************************************************************************)
(* Configuration discovery of crates/uv-settings/src/lib.rs:               *)
(*   FilesystemOptions::find / from_directory  (project tier, ascent)      *)
(*   FilesystemOptions::system / system_config_file /                      *)
(*       locate_system_config_xdg              (system tier)               *)
(*   FilesystemOptions::user / user_config_dir (user tier)                 *)
(* The filesystem and the environment are the inputs; every entry point    *)
(* is a sequence of reads of that filesystem.                              *)
(***************************************************************************)
EXTENDS Naturals, Sequences, FiniteSets

\* ------------------------------------------------------------------ bounds
\* Largest number of components of the path handed to find (the path has
\* MaxDepth + 1 ancestors, the terminal ancestor included).
MaxDepth == 2
\* Largest length, in characters, of the XDG_CONFIG_DIRS value.
MaxLen == 4

\* ------------------------------------------------------- values and files
\* The Options values are "optA" and "optB", which set something, and
\* "default", the record with every field absent (what an empty table
\* deserializes to).

\* What fs_err::read_to_string gives for a path: the io::ErrorKind of a
\* failure, or the text of the file.
NotFound == [io |-> "NotFound"]
IoOther == [io |-> "Other"]
Text(c) == [io |-> "Ok", content |-> c]

\* Texts of a uv.toml: one that is no valid Options document, one that sets
\* k to A.
UvTexts == {"garbage", "k=A"}
\* Texts of a pyproject.toml: one that is no valid document, one without
\* [tool] table, one with a [tool] table without uv, one with an empty
\* [tool.uv] table, one whose [tool.uv] sets k to B.
PyTexts == {"garbage", "no_tool", "tool_no_uv", "uv_empty", "uv k=B"}

UvFiles == {NotFound, IoOther} \cup {Text(c) : c \in UvTexts}
PyFiles == {NotFound, IoOther} \cup {Text(c) : c \in PyTexts}

\* Option<T>
None == [some |-> FALSE]
Some(x) == [some |-> TRUE, v |-> x]

\* ------------------------------------------------------------ result types
OkNone == [tag |-> "OkNone"]
OkSome(o) == [tag |-> "OkSome", options |-> o]
ErrIo(kind, file) == [tag |-> "ErrIo", kind |-> kind, file |-> file]
ErrUvToml(file) == [tag |-> "ErrUvToml", file |-> file]
ErrPyprojectToml(file) == [tag |-> "ErrPyprojectToml", file |-> file]
Pending == [tag |-> "Pending"]

\* toml::from_str::<Options>: Err for a text that is no Options document.
ParseOptions(text) ==
    CASE text = "k=A" -> [ok |-> TRUE, options |-> "optA"]
      [] text = "k=B" -> [ok |-> TRUE, options |-> "optB"]
      [] OTHER        -> [ok |-> FALSE]

\* ParsePyProjectToml with an empty [tool.uv] table read as no table.
ParsePyProjectTomlEmptyIsNone(text) ==
    CASE text = "garbage"    -> [ok |-> FALSE]
      [] text = "no_tool"    -> [ok |-> TRUE, tool |-> None]
      [] text = "tool_no_uv" -> [ok |-> TRUE, tool |-> Some([uv |-> None])]
      [] text = "uv_empty"   -> [ok |-> TRUE, tool |-> Some([uv |-> None])]
      [] text = "uv k=A"     -> [ok |-> TRUE, tool |-> Some([uv |-> Some("optA")])]
      [] text = "uv k=B"     -> [ok |-> TRUE, tool |-> Some([uv |-> Some("optB")])]

\* toml::from_str::<PyProjectToml>: Err for a text that is no document,
\* else the document's tool (Option<Tools>) and tool.uv (Option<Options>).
\* A [tool.uv] table that is present deserializes to Some, an empty one to
\* Some of the default Options.
ParsePyProjectToml(text) ==
    CASE text = "garbage"    -> [ok |-> FALSE]
      [] text = "no_tool"    -> [ok |-> TRUE, tool |-> None]
      [] text = "tool_no_uv" -> [ok |-> TRUE, tool |-> Some([uv |-> None])]
      [] text = "uv_empty"   -> [ok |-> TRUE, tool |-> Some([uv |-> Some("default")])]
      [] text = "uv k=A"     -> [ok |-> TRUE, tool |-> Some([uv |-> Some("optA")])]
      [] text = "uv k=B"     -> [ok |-> TRUE, tool |-> Some([uv |-> Some("optB")])]

\* Path::join(dir, name)
Join(dir, name) == <<dir, name>>

\* Ancestors with the order reversed: the terminal ancestor first.
AncestorsRootFirst(p) == [i \in 1..(Len(p) + 1) |-> SubSeq(p, 1, i - 1)]

\* Path::ancestors: the path itself, then each parent, the terminal
\* ancestor (no component left) last.
Ancestors(p) == [i \in 1..(Len(p) + 1) |-> SubSeq(p, 1, Len(p) + 1 - i)]

ConflictWarning == [kind |-> "both_uv_toml_and_tool_uv"]
ParseWarning(file) == [kind |-> "pyproject_parse_failed", file |-> file]

\* ------------------------------------------------- system tier: the paths
\* let default = "/etc/xdg": one path, no ':' in it.
DefaultConfigDirs == <<"/etc/xdg">>
\* The fallback candidate /etc/uv/uv.toml.
EtcUvToml == <<"/etc", "uv", "uv.toml">>
\* Path::new(dir).join("uv").join("uv.toml")
XdgUvToml(dir) == Join(Join(dir, "uv"), "uv.toml")
\* PathBuf::from(system_drive).join("ProgramData\\uv\\uv.toml")
ProgramDataUvToml(drive) == Join(drive, "ProgramData\\uv\\uv.toml")

\* The read of path p in the filesystem files (a function from the paths
\* that exist or fail to what reading them gives).
FileAt(files, p) == IF p \in DOMAIN files THEN files[p] ELSE NotFound

\* Path::is_file: the entry exists (a file that exists may still fail to
\* be read).
IsFile(files, p) == FileAt(files, p).io # "NotFound"

\* str::split(':'): the segments between the separators, empty ones kept.
RECURSIVE Split(_)
Split(s) ==
    IF \A i \in 1..Len(s) : s[i] # ":"
    THEN <<s>>
    ELSE LET i == CHOOSE k \in 1..Len(s) :
                      s[k] = ":" /\ \A j \in 1..(k - 1) : s[j] # ":"
         IN  <<SubSeq(s, 1, i - 1)>> \o Split(SubSeq(s, i + 1, Len(s)))

\* Iterator::take_while(|s| !s.is_empty()): the segments before the first
\* empty one.
RECURSIVE TakeWhileNonEmpty(_)
TakeWhileNonEmpty(segs) ==
    IF segs = <<>> \/ Head(segs) = <<>> THEN <<>>
    ELSE <<Head(segs)>> \o TakeWhileNonEmpty(Tail(segs))

\* FirstUvToml with the last directory that has one winning.
RECURSIVE LastUvToml(_, _)
LastUvToml(files, dirs) ==
    IF dirs = <<>> THEN None
    ELSE LET rest == LastUvToml(files, Tail(dirs))
         IN  IF rest.some THEN rest
             ELSE IF IsFile(files, XdgUvToml(Head(dirs)))
                  THEN Some(XdgUvToml(Head(dirs)))
                  ELSE None

\* The for loop of locate_system_config_xdg: the uv/uv.toml of the first
\* directory that has one.
RECURSIVE FirstUvToml(_, _)
FirstUvToml(files, dirs) ==
    IF dirs = <<>> THEN None
    ELSE IF IsFile(files, XdgUvToml(Head(dirs))) THEN Some(XdgUvToml(Head(dirs)))
    ELSE FirstUvToml(files, Tail(dirs))

\* value.filter(|s| !s.is_empty()).unwrap_or(default)
ConfigDirs(value) ==
    IF value.some /\ value.v # <<>> THEN value.v ELSE DefaultConfigDirs

\* The directories locate_system_config_xdg probes, in order.
SearchDirs(value) == TakeWhileNonEmpty(Split(ConfigDirs(value)))

\* locate_system_config_xdg(value) on the filesystem files.
LocateSystemConfigXdg(files, value) == FirstUvToml(files, SearchDirs(value))

\* system_config_file() for the platform the crate is built for.
SystemConfigFile(plat, env, files) ==
    IF plat = "windows"
    THEN IF env.SYSTEMDRIVE.some
         THEN IF IsFile(files, ProgramDataUvToml(env.SYSTEMDRIVE.v))
              THEN Some(ProgramDataUvToml(env.SYSTEMDRIVE.v))
              ELSE None
         ELSE None
    ELSE LET xdg == LocateSystemConfigXdg(files, env.XDG_CONFIG_DIRS)
         IN  IF xdg.some THEN xdg
             ELSE IF IsFile(files, EtcUvToml) THEN Some(EtcUvToml) ELSE None

\* read_file(path), where reading path gives f.
ReadFile(p, f) ==
    IF f.io # "Ok" THEN ErrIo(f.io, p)
    ELSE LET opts == ParseOptions(f.content)
         IN  IF opts.ok THEN [tag |-> "Ok", options |-> opts.options]
             ELSE ErrUvToml(p)

\* ---------------------------------------------------- user tier: the paths
\* dirs_sys::is_absolute_path
IsAbsolutePath(p) == p \in {"/abs"}

\* user_config_dir() for the platform the crate is built for.
UserConfigDir(plat, env) ==
    IF plat = "windows"
    THEN env.roaming_app_data
    ELSE IF env.XDG_CONFIG_HOME.some /\ IsAbsolutePath(env.XDG_CONFIG_HOME.v)
         THEN Some(<<env.XDG_CONFIG_HOME.v>>)
         ELSE IF env.home_dir.some
              THEN Some(Join(env.home_dir.v, ".config"))
              ELSE None

\* UserMatch without the arm Err(_) if !dir.is_dir().
UserMatchNoDirCheck(dir, d) ==
    LET file == Join(Join(dir, "uv"), "uv.toml")
        r == ReadFile(file, d.file)
    IN  IF r.tag = "Ok" THEN OkSome(r.options)
        ELSE IF r.tag = "ErrIo" /\ r.kind = "NotFound" THEN OkNone
        ELSE r

\* The match of user() on read_file(&file), dir being the user directory
\* and d its state: whether it is a directory, and what reading
\* dir/uv/uv.toml gives.
UserMatch(dir, d) ==
    LET file == Join(Join(dir, "uv"), "uv.toml")
        r == ReadFile(file, d.file)
    IN  IF r.tag = "Ok" THEN OkSome(r.options)
        ELSE IF r.tag = "ErrIo" /\ r.kind = "NotFound" THEN OkNone
        ELSE IF ~d.isDir THEN OkNone
        ELSE r

VARIABLES
    entry,      \* the entry point being run: "find", "system" or "user"
    pc,         \* its position
    platform,   \* cfg(windows) or cfg(not(windows))
    env,        \* the environment variables and platform folders read
    path,       \* find: the path given
    tree,       \* find: directory -> [uv, py], the two files of each ancestor
    idx,        \* find: index in Ancestors(path) of the next ancestor
    sysFiles,   \* system: candidate path -> what reading it gives
    xdgPath,    \* system: what locate_system_config_xdg returned
    located,    \* system: what system_config_file() returned
    userDirs,   \* user: candidate directory -> [isDir, file]
    reads,      \* the files read so far, in order
    warnings,   \* the warn_user! messages so far, in order
    result      \* the value returned (Pending before the return)

vars == <<entry, pc, platform, env, path, tree, idx, sysFiles, xdgPath, located,
          userDirs, reads, warnings, result>>

\* The variables an entry point does not use.
NoEnv == [none |-> TRUE]
NoFind == path = <<>> /\ tree = <<>> /\ idx = 0
NoSystem == sysFiles = <<>> /\ xdgPath = None /\ located = None
NoUser == userDirs = <<>>

\* ------------------------------------------------------- from_directory
\* FromPyproject with every read failure taken for a missing file.
FromPyprojectSwallowIo(dir, py) ==
    LET file == Join(dir, "pyproject.toml")
        rd == <<file>>
    IN  IF py.io = "Ok"
        THEN LET doc == ParsePyProjectToml(py.content)
             IN  IF ~doc.ok
                 THEN [res |-> ErrPyprojectToml(file), warns |-> <<>>, reads |-> rd]
                 ELSE IF ~doc.tool.some
                 THEN [res |-> OkNone, warns |-> <<>>, reads |-> rd]
                 ELSE IF ~doc.tool.v.uv.some
                 THEN [res |-> OkNone, warns |-> <<>>, reads |-> rd]
                 ELSE [res |-> OkSome(doc.tool.v.uv.v), warns |-> <<>>, reads |-> rd]
        ELSE [res |-> OkNone, warns |-> <<>>, reads |-> rd]

\* The second half of from_directory: uv.toml was not found.
FromPyproject(dir, py) ==
    LET file == Join(dir, "pyproject.toml")
        rd == <<file>>
    IN  IF py.io = "Ok"
        THEN LET doc == ParsePyProjectToml(py.content)
             IN  IF ~doc.ok
                 THEN [res |-> ErrPyprojectToml(file), warns |-> <<>>, reads |-> rd]
                 ELSE IF ~doc.tool.some
                 THEN [res |-> OkNone, warns |-> <<>>, reads |-> rd]
                 ELSE IF ~doc.tool.v.uv.some
                 THEN [res |-> OkNone, warns |-> <<>>, reads |-> rd]
                 ELSE [res |-> OkSome(doc.tool.v.uv.v), warns |-> <<>>, reads |-> rd]
        ELSE IF py.io = "NotFound"
        THEN [res |-> OkNone, warns |-> <<>>, reads |-> rd]
        ELSE [res |-> ErrIo(py.io, file), warns |-> <<>>, reads |-> rd]

\* AdjacentToolUv without the look at the [tool.uv] table: any adjacent
\* pyproject.toml that can be read counts.
AdjacentPyprojectExists(py) == py.io = "Ok"

\* Whether the advisory read of the adjacent pyproject.toml finds a
\* [tool.uv] table: read and parse failures are dropped by .ok().
AdjacentToolUv(py) ==
    /\ py.io = "Ok"
    /\ LET doc == ParsePyProjectToml(py.content)
       IN  doc.ok /\ doc.tool.some /\ doc.tool.v.uv.some

\* from_directory(dir) on a directory whose two files are d.uv and d.py:
\* the value returned, the warnings emitted and the files read.
FromDirectory(dir, d) ==
    LET file == Join(dir, "uv.toml")
        adj == Join(dir, "pyproject.toml")
    IN  IF d.uv.io = "Ok"
        THEN LET opts == ParseOptions(d.uv.content)
             IN  IF ~opts.ok
                 THEN [res |-> ErrUvToml(file), warns |-> <<>>, reads |-> <<file>>]
                 ELSE [res |-> OkSome(opts.options),
                       warns |-> IF AdjacentToolUv(d.py)
                                 THEN <<ConflictWarning>> ELSE <<>>,
                       reads |-> <<file, adj>>]
        ELSE IF d.uv.io = "NotFound"
        THEN LET r == FromPyproject(dir, d.py)
             IN  [r EXCEPT !.reads = <<file>> \o r.reads]
        ELSE [res |-> ErrIo(d.uv.io, file), warns |-> <<>>, reads |-> <<file>>]

\* ----------------------------------------------------------------- find
\* Downgraded with both parse errors skipped.
DowngradedAnyParse(res) == res.tag \in {"ErrPyprojectToml", "ErrUvToml"}
\* Downgraded with no error skipped.
DowngradedNever(res) == FALSE

\* The arm Err(Error::PyprojectToml(file, err)) of the match of find: the
\* errors that are warned about and skipped.
Downgraded(res) == res.tag = "ErrPyprojectToml"

Paths == {[i \in 1..n |-> i] : n \in 0..MaxDepth}
Dirs == [uv : UvFiles, py : PyFiles]

InitFind ==
    /\ entry = "find"
    /\ pc = "loop"
    /\ platform = "unix"      \* find reads neither the platform nor env
    /\ env = NoEnv
    /\ NoSystem /\ NoUser
    /\ path \in Paths
    /\ tree \in [{Ancestors(path)[i] : i \in 1..(Len(path) + 1)} -> Dirs]
    /\ idx = 1
    /\ reads = <<>>
    /\ warnings = <<>>
    /\ result = Pending

\* One iteration of the loop of find: from_directory on the next ancestor
\* and the match on what it returns.
FindStep ==
    /\ entry = "find" /\ pc = "loop"
    /\ idx <= Len(path) + 1
    /\ LET ancestor == Ancestors(path)[idx]
           r == FromDirectory(ancestor, tree[ancestor])
       IN  /\ reads' = reads \o r.reads
           /\ CASE r.res.tag = "OkSome" ->
                     /\ result' = r.res
                     /\ warnings' = warnings \o r.warns
                     /\ pc' = "done"
                     /\ idx' = idx
                [] r.res.tag = "OkNone" ->
                     /\ result' = result
                     /\ warnings' = warnings \o r.warns
                     /\ pc' = pc
                     /\ idx' = idx + 1
                [] Downgraded(r.res) ->
                     /\ result' = result
                     /\ warnings' = (warnings \o r.warns) \o <<ParseWarning(r.res.file)>>
                     /\ pc' = pc
                     /\ idx' = idx + 1
                [] OTHER ->
                     /\ result' = r.res
                     /\ warnings' = warnings \o r.warns
                     /\ pc' = "done"
                     /\ idx' = idx
    /\ UNCHANGED <<entry, platform, env, path, tree, sysFiles, xdgPath, located, userDirs>>

\* The loop of find ran out of ancestors: Ok(None).
FindExhausted ==
    /\ entry = "find" /\ pc = "loop"
    /\ idx > Len(path) + 1
    /\ result' = OkNone
    /\ pc' = "done"
    /\ UNCHANGED <<entry, platform, env, path, tree, idx, sysFiles, xdgPath, located,
                   userDirs, reads, warnings>>

NextFind == FindStep \/ FindExhausted

SpecFind == InitFind /\ [][NextFind]_vars

\* --------------------------------------------------------------- system
\* The characters of an XDG_CONFIG_DIRS value: two directory names and the
\* separator.
Chars == {"a", "b", ":"}
Strings == UNION {[1..n -> Chars] : n \in 0..MaxLen}

\* The paths of the system tier that may hold a file.
UnixCandidates ==
    {XdgUvToml(<<"a">>), XdgUvToml(<<"b">>), XdgUvToml(DefaultConfigDirs), EtcUvToml}
WindowsCandidates == {ProgramDataUvToml("C:")}

InitSystem ==
    /\ entry = "system"
    /\ pc = "start"
    /\ platform \in {"unix", "windows"}
    /\ \/ /\ platform = "unix"
          /\ env \in [XDG_CONFIG_DIRS : {None} \cup {Some(s) : s \in Strings}]
          /\ sysFiles \in [UnixCandidates -> UvFiles]
       \/ /\ platform = "windows"
          /\ env \in [SYSTEMDRIVE : {None, Some("C:")}]
          /\ sysFiles \in [WindowsCandidates -> UvFiles]
    /\ xdgPath = None
    /\ located = None
    /\ NoFind /\ NoUser
    /\ reads = <<>>
    /\ warnings = <<>>
    /\ result = Pending

\* system(), first half: system_config_file(), and the return of Ok(None)
\* when it finds no file.
SystemLocate ==
    /\ entry = "system" /\ pc = "start"
    /\ located' = SystemConfigFile(platform, env, sysFiles)
    /\ xdgPath' = IF platform = "windows" THEN None
                  ELSE LocateSystemConfigXdg(sysFiles, env.XDG_CONFIG_DIRS)
    /\ IF located'.some
       THEN pc' = "located" /\ result' = result
       ELSE pc' = "done" /\ result' = OkNone
    /\ UNCHANGED <<entry, platform, env, path, tree, idx, sysFiles, userDirs,
                   reads, warnings>>

\* Another process removes the file system_config_file() found, before
\* system() reads it.
Unlink ==
    /\ entry = "system" /\ pc = "located"
    /\ IsFile(sysFiles, located.v)
    /\ sysFiles' = [sysFiles EXCEPT ![located.v] = NotFound]
    /\ UNCHANGED <<entry, pc, platform, env, path, tree, idx, xdgPath, located, userDirs,
                   reads, warnings, result>>

\* system(), second half: Ok(Some(Self(read_file(&file)?))).
SystemRead ==
    /\ entry = "system" /\ pc = "located"
    /\ LET r == ReadFile(located.v, FileAt(sysFiles, located.v))
       IN  result' = IF r.tag = "Ok" THEN OkSome(r.options) ELSE r
    /\ reads' = Append(reads, located.v)
    /\ pc' = "done"
    /\ UNCHANGED <<entry, platform, env, path, tree, idx, sysFiles, xdgPath, located,
                   userDirs, warnings>>

NextSystem == SystemLocate \/ Unlink \/ SystemRead

SpecSystem == InitSystem /\ [][NextSystem]_vars

\* ----------------------------------------------------------------- user
\* A candidate user directory: whether Path::is_dir holds of it, and what
\* reading uv/uv.toml under it gives.  Nothing is read through a path that
\* is no directory.
UserDirStates ==
    {d \in [isDir : BOOLEAN, file : UvFiles] : ~d.isDir => d.file.io # "Ok"}

HomeConfig == Join("/home", ".config")

InitUser ==
    /\ entry = "user"
    /\ pc = "start"
    /\ platform \in {"unix", "windows"}
    /\ \/ /\ platform = "unix"
          /\ env \in [XDG_CONFIG_HOME : {None, Some("rel"), Some("/abs")},
                      home_dir : {None, Some("/home")}]
          /\ userDirs \in [{<<"/abs">>, HomeConfig} -> UserDirStates]
       \/ /\ platform = "windows"
          /\ env \in [roaming_app_data : {None, Some(<<"AppData">>)}]
          /\ userDirs \in [{<<"AppData">>} -> UserDirStates]
    /\ NoFind /\ NoSystem
    /\ reads = <<>>
    /\ warnings = <<>>
    /\ result = Pending

\* user()
User ==
    /\ entry = "user" /\ pc = "start"
    /\ LET dir == UserConfigDir(platform, env)
       IN  IF ~dir.some
           THEN result' = OkNone /\ reads' = reads
           ELSE /\ result' = UserMatch(dir.v, userDirs[dir.v])
                /\ reads' = Append(reads, Join(Join(dir.v, "uv"), "uv.toml"))
    /\ pc' = "done"
    /\ UNCHANGED <<entry, platform, env, path, tree, idx, sysFiles, xdgPath, located,
                   userDirs, warnings>>

NextUser == User

SpecUser == InitUser /\ [][NextUser]_vars

\* ------------------------------------------------------ every entry point
Init == InitFind \/ InitSystem \/ InitUser

Next == FindStep \/ FindExhausted \/ SystemLocate \/ Unlink \/ SystemRead \/ User

Spec == Init /\ [][Next]_vars


\* ======================================================================
\* Properties of find and from_directory (checked under SpecFind)
\* ======================================================================
\* The ancestors of path by level: level Len(path) is path itself, level 0
\* the terminal ancestor; the parent of level k is level k - 1.
Levels == 0..Len(path)
DirOf(k) == SubSeq(path, 1, k)
UvOf(k) == tree[DirOf(k)].uv
PyOf(k) == tree[DirOf(k)].py
UvTomlOf(k) == <<DirOf(k), "uv.toml">>
PyprojectTomlOf(k) == <<DirOf(k), "pyproject.toml">>
WasRead(f) == \E i \in 1..Len(reads) : reads[i] = f
FindDone == entry = "find" /\ pc = "done"
\* The level of the directory of the i-th read of find.
ReadLevel(i) == Len(reads[i][1])
Count(seq, x) == Cardinality({i \in 1..Len(seq) : seq[i] = x})

\* A uv.toml that parses, and the [tool.uv] section of a pyproject.toml.
UvValid(k) == UvOf(k).io = "Ok" /\ ParseOptions(UvOf(k).content).ok
UvOptions(k) == ParseOptions(UvOf(k).content).options
PyHasSection(k) == PyOf(k) \in {Text("uv_empty"), Text("uv k=B")}
PyPopulated(k) == PyOf(k) = Text("uv k=B")
PySection(k) == IF PyPopulated(k) THEN "optB" ELSE "default"

\* The directory at level k yields a configuration, and which.
YieldsConfig(k) == UvValid(k) \/ (UvOf(k) = NotFound /\ PyHasSection(k))
ConfigAt(k) == IF UvValid(k) THEN UvOptions(k) ELSE PySection(k)
\* The directory at level k yields neither a configuration nor a fatal
\* error.
NoConfigNoFatal(k) ==
    /\ UvOf(k) = NotFound
    /\ PyOf(k) \in {NotFound, Text("garbage"), Text("no_tool"), Text("tool_no_uv")}

\* What find returns when started at level k, as the nearest-ancestor rule
\* states it.
RECURSIVE NearestFrom(_)
NearestFrom(k) ==
    IF UvOf(k).io = "Ok"
    THEN IF UvValid(k) THEN OkSome(UvOptions(k)) ELSE ErrUvToml(UvTomlOf(k))
    ELSE IF UvOf(k).io # "NotFound" THEN ErrIo(UvOf(k).io, UvTomlOf(k))
    ELSE IF PyHasSection(k) THEN OkSome(PySection(k))
    ELSE IF PyOf(k).io \notin {"Ok", "NotFound"}
         THEN ErrIo(PyOf(k).io, PyprojectTomlOf(k))
    ELSE IF k = 0 THEN OkNone ELSE NearestFrom(k - 1)

\* C1: find reads the ancestors child before parent, and when level b is
\* the nearest ancestor that yields a configuration (every level below it
\* yields neither a configuration nor a fatal error) find returns the
\* configuration of b and reads no file of any ancestor above b.
C1_NearestAncestorWins ==
    entry = "find" =>
      /\ \A i, j \in 1..Len(reads) : i < j => ReadLevel(i) >= ReadLevel(j)
      /\ FindDone =>
           \A b \in Levels :
             (YieldsConfig(b) /\ \A k \in Levels : k > b => NoConfigNoFatal(k)) =>
               /\ result = OkSome(ConfigAt(b))
               /\ \A k \in Levels : k >= b => WasRead(UvTomlOf(k))
               /\ \A i \in 1..Len(reads) : ReadLevel(i) >= b

\* A/B/C: C holds nothing, B a pyproject.toml with [tool.uv], A a valid
\* uv.toml; find from C has returned B's options.
C1_Witness ==
    /\ FindDone /\ Len(path) = 2
    /\ UvOf(2) = NotFound /\ PyOf(2) = NotFound
    /\ UvOf(1) = NotFound /\ PyOf(1) = Text("uv k=B")
    /\ UvOf(0) = Text("k=A")
    /\ result = OkSome("optB")

\* The level at which find stopped: that of its last read.
StopLevel == ReadLevel(Len(reads))

\* C2: when find stops with a configuration at a directory that holds a
\* uv.toml, the configuration is the one parsed from that uv.toml; when
\* the pyproject.toml beside it has a populated [tool.uv] the call of
\* from_directory on that directory emits exactly one conflict warning; a
\* [tool.uv] table is returned only from a directory without uv.toml.
C2_UvTomlDominates ==
    (FindDone /\ result.tag = "OkSome") =>
      /\ UvOf(StopLevel) # NotFound =>
           /\ UvValid(StopLevel)
           /\ result = OkSome(UvOptions(StopLevel))
           /\ PyPopulated(StopLevel) => Count(warnings, ConflictWarning) = 1
           /\ ~PyHasSection(StopLevel) => Count(warnings, ConflictWarning) = 0
      /\ UvOf(StopLevel) = NotFound =>
           /\ result = OkSome(PySection(StopLevel))
           /\ Count(warnings, ConflictWarning) = 0

\* One directory with uv.toml (k=A) and a pyproject.toml whose [tool.uv]
\* holds k=B: the options of uv.toml, one warning.
C2_Witness ==
    /\ FindDone /\ Len(path) = 0
    /\ UvOf(0) = Text("k=A") /\ PyOf(0) = Text("uv k=B")
    /\ result = OkSome("optA")
    /\ warnings = <<ConflictWarning>>

\* C3: when find has read a uv.toml that does not parse, it returns
\* Error::UvToml for that file, that read is its last (nothing beside or
\* above it is read) and no configuration is returned.
C3_MalformedUvTomlIsFatal ==
    FindDone =>
      \A k \in Levels :
        (WasRead(UvTomlOf(k)) /\ UvOf(k) = Text("garbage")) =>
          /\ result = ErrUvToml(UvTomlOf(k))
          /\ reads[Len(reads)] = UvTomlOf(k)

\* B holds a malformed uv.toml beside a valid pyproject.toml, its parent a
\* valid uv.toml: the error of B's uv.toml.
C3_Witness ==
    /\ FindDone /\ Len(path) = 1
    /\ UvOf(1) = Text("garbage") /\ PyOf(1) = Text("uv k=B")
    /\ UvOf(0) = Text("k=A")
    /\ result = ErrUvToml(UvTomlOf(1))

\* C4: when find has read, in a directory without uv.toml, a
\* pyproject.toml that does not parse, it has warned once naming that
\* file, it does not return an error for a pyproject.toml, and it returns
\* what find started at the parent returns (Ok(None) when there is no
\* parent).
C4_MalformedPyprojectIsSkipped ==
    FindDone =>
      /\ result.tag # "ErrPyprojectToml"
      /\ \A k \in Levels :
           (WasRead(PyprojectTomlOf(k)) /\ UvOf(k) = NotFound
              /\ PyOf(k) = Text("garbage")) =>
             /\ Count(warnings, ParseWarning(PyprojectTomlOf(k))) = 1
             /\ result = IF k = 0 THEN OkNone ELSE NearestFrom(k - 1)

\* The start directory holds a malformed pyproject.toml, its parent a valid
\* uv.toml: one warning, the parent's options.
C4_Witness ==
    /\ FindDone /\ Len(path) = 1
    /\ UvOf(1) = NotFound /\ PyOf(1) = Text("garbage")
    /\ UvOf(0) = Text("k=A")
    /\ warnings = <<ParseWarning(PyprojectTomlOf(1))>>
    /\ result = OkSome("optA")

\* The ascent went on past level k: the parent was read, or there is none
\* and find returned Ok(None).
WentOnPast(k) == IF k = 0 THEN result = OkNone ELSE WasRead(UvTomlOf(k - 1))

\* C5 as stated: in a directory without uv.toml whose pyproject.toml
\* parses and has no [tool] table, no [tool.uv] section or an empty
\* [tool.uv] section, find takes nothing from the directory and goes on to
\* the parent.
C5_EmptySectionIsAbsent ==
    FindDone =>
      \A k \in Levels :
        (WasRead(PyprojectTomlOf(k)) /\ UvOf(k) = NotFound
           /\ PyOf(k) \in {Text("no_tool"), Text("tool_no_uv"), Text("uv_empty")}) =>
          WentOnPast(k)

\* C5 as amended: without a [tool] table or without a [tool.uv] section
\* the directory is taken as absent (no error, no warning of its own, the
\* ascent goes on); a [tool.uv] section that is present yields Found, the
\* empty one with the default options.
C5_SectionPresentIsFound ==
    FindDone =>
      \A k \in Levels :
        (WasRead(PyprojectTomlOf(k)) /\ UvOf(k) = NotFound) =>
          /\ PyOf(k) \in {Text("no_tool"), Text("tool_no_uv")} =>
               /\ WentOnPast(k)
               /\ result = IF k = 0 THEN OkNone ELSE NearestFrom(k - 1)
               /\ Count(warnings, ParseWarning(PyprojectTomlOf(k))) = 0
          /\ PyOf(k) = Text("uv_empty") =>
               result = OkSome("default") /\ reads[Len(reads)] = PyprojectTomlOf(k)
          /\ PyPopulated(k) =>
               result = OkSome(PySection(k)) /\ reads[Len(reads)] = PyprojectTomlOf(k)

\* The start directory holds a pyproject.toml with an empty [tool.uv], the
\* parent a valid uv.toml: find stops at the start directory.
C5_Witness ==
    /\ FindDone /\ Len(path) = 1
    /\ UvOf(1) = NotFound /\ PyOf(1) = Text("uv_empty")
    /\ UvOf(0) = Text("k=A")
    /\ result = OkSome("default")
    /\ ~WasRead(UvTomlOf(0))

\* The advisory read: pyproject.toml read after the uv.toml beside it was
\* read successfully.
IsAdvisoryRead(i) ==
    /\ reads[i][2] = "pyproject.toml"
    /\ tree[reads[i][1]].uv.io = "Ok"
FileRead(i) == tree[reads[i][1]][IF reads[i][2] = "uv.toml" THEN "uv" ELSE "py"]

\* C9 as stated: every read of find that fails with an error other than
\* not-found is the last read and find returns that error as Error::Io.
C9_EveryReadErrorIsFatal ==
    FindDone =>
      \A i \in 1..Len(reads) :
        FileRead(i).io \notin {"Ok", "NotFound"} =>
          /\ result = ErrIo(FileRead(i).io, reads[i])
          /\ i = Len(reads)

\* C9 as amended: that holds of the read of uv.toml and of the read of
\* pyproject.toml in a directory without uv.toml; a failure of the
\* advisory read of pyproject.toml beside a uv.toml that was found is
\* dropped, and find returns the options of that uv.toml without warning.
C9_ReadErrorIsFatalButAdvisory ==
    FindDone =>
      \A i \in 1..Len(reads) :
        FileRead(i).io \notin {"Ok", "NotFound"} =>
          /\ i = Len(reads)
          /\ ~IsAdvisoryRead(i) => result = ErrIo(FileRead(i).io, reads[i])
          /\ IsAdvisoryRead(i) =>
               /\ result = OkSome(UvOptions(ReadLevel(i)))
               /\ Count(warnings, ConflictWarning) = 0

\* The start directory holds nothing, its parent a pyproject.toml that
\* cannot be read and no uv.toml: Error::Io for the pyproject.toml.
C9_Witness ==
    /\ FindDone /\ Len(path) = 2
    /\ NoConfigNoFatal(2)
    /\ UvOf(1) = NotFound /\ PyOf(1) = IoOther
    /\ result = ErrIo("Other", PyprojectTomlOf(1))
    /\ ~WasRead(UvTomlOf(0))

\* ======================================================================
\* Properties of locate_system_config_xdg and system (SpecSystem, Spec)
\* ======================================================================
XdgValue == env.XDG_CONFIG_DIRS
\* The non-empty segments of s, each as its first and last position: the
\* maximal runs of characters other than ':'.
Segments(s) ==
    {seg \in (1..Len(s)) \X (1..Len(s)) :
        /\ seg[1] <= seg[2]
        /\ \A k \in seg[1]..seg[2] : s[k] # ":"
        /\ seg[1] = 1 \/ s[seg[1] - 1] = ":"
        /\ seg[2] = Len(s) \/ s[seg[2] + 1] = ":"}
\* s lists directories, none of them empty.
HasNoEmptySegment(s) ==
    /\ s # <<>>
    /\ s[1] # ":" /\ s[Len(s)] # ":"
    /\ \A i \in 1..(Len(s) - 1) : ~(s[i] = ":" /\ s[i + 1] = ":")
\* The uv/uv.toml of the leftmost non-empty segment of s that has one.
FirstListed(s) ==
    LET hits == {seg \in Segments(s) :
                    IsFile(sysFiles, XdgUvToml(SubSeq(s, seg[1], seg[2])))}
    IN  IF hits = {} THEN None
        ELSE LET first == CHOOSE seg \in hits : \A o \in hits : seg[1] <= o[1]
             IN  Some(XdgUvToml(SubSeq(s, first[1], first[2])))
\* locate_system_config_xdg has returned and the files are as it saw them.
XdgLocated ==
    /\ entry = "system" /\ platform = "unix" /\ pc # "start"
    /\ located.some => IsFile(sysFiles, located.v)

\* C6: for a value that lists non-empty directories only,
\* locate_system_config_xdg returns the uv/uv.toml of the first listed
\* directory that has one, and None when none has.
C6_LeftToRightPrecedence ==
    (XdgLocated /\ XdgValue.some /\ HasNoEmptySegment(XdgValue.v)) =>
      xdgPath = FirstListed(XdgValue.v)

\* first:second where only second holds uv/uv.toml: second's file.
C6_Witness ==
    /\ XdgLocated
    /\ XdgValue = Some(<<"a", ":", "b">>)
    /\ ~IsFile(sysFiles, XdgUvToml(<<"a">>))
    /\ IsFile(sysFiles, XdgUvToml(<<"b">>))
    /\ xdgPath = Some(XdgUvToml(<<"b">>))

\* C7 as stated: empty segments are skipped, so for every non-empty value
\* locate_system_config_xdg returns the uv/uv.toml of the first non-empty
\* segment that has one (a directory after an empty segment included), and
\* None for a value of empty segments only.
C7_EmptySegmentsAreSkipped ==
    (XdgLocated /\ XdgValue.some /\ XdgValue.v # <<>>) =>
      xdgPath = FirstListed(XdgValue.v)

\* C10 as stated: find returns Ok(None) without warning when no ancestor
\* holds either file; system returns Ok(None) when no candidate exists; no
\* entry point returns an error for a file that does not exist.
C10_AbsenceIsNeverAnError ==
    /\ (FindDone /\ \A k \in Levels : UvOf(k) = NotFound /\ PyOf(k) = NotFound) =>
         (result = OkNone /\ warnings = <<>>)
    /\ (entry = "system" /\ pc # "start" /\ ~located.some
          /\ \A p \in DOMAIN sysFiles : ~IsFile(sysFiles, p)) =>
         (pc = "done" /\ result = OkNone)
    /\ pc = "done" => ~(result.tag = "ErrIo" /\ result.kind = "NotFound")

\* ======================================================================
\* Properties of user (SpecUser)
\* ======================================================================
\* C8: user() returns Ok(None) exactly when no user directory is resolved,
\* when reading <dir>/uv/uv.toml gives not-found, or when the read fails
\* and <dir> is no directory (is_dir is false: missing, not a directory,
\* out of reach); under a directory, any other read failure and any parse
\* failure is returned as the error, and a file that parses as its options.
C8_UserAbsentOrError ==
    (entry = "user" /\ pc = "done") =>
      LET dir == UserConfigDir(platform, env)
      IN  IF ~dir.some THEN result = OkNone
          ELSE LET d == userDirs[dir.v]
                   file == <<<<dir.v, "uv">>, "uv.toml">>
               IN  /\ result = OkNone <=> (d.file = NotFound \/ ~d.isDir)
                   /\ (d.isDir /\ d.file = IoOther) => result = ErrIo("Other", file)
                   /\ (d.isDir /\ d.file = Text("garbage")) => result = ErrUvToml(file)
                   /\ d.file = Text("k=A") => result = OkSome("optA")

\* XDG_CONFIG_HOME names something that is no directory (/dev/null): the
\* read fails with an error other than not-found, and user() is Ok(None).
C8_Witness ==
    /\ entry = "user" /\ pc = "done" /\ platform = "unix"
    /\ env.XDG_CONFIG_HOME = Some("/abs")
    /\ userDirs[<<"/abs">>] = [isDir |-> FALSE, file |-> IoOther]
    /\ result = OkNone

=============================================================================
